---- MODULE Spec2Model ----
(***************************************************************************)
(* Model of firevault-js: the Schema validator (stripData, nestData,       *)
(* flattenData, the per-field rule evaluators and the recursive validate   *)
(* walk).                                                                  *)
(*                                                                         *)
(* JavaScript values are records tagged by `kind`.  A string is a sequence *)
(* of atoms: data strings use one-character atoms, so Len is .length; a    *)
(* property key is a sequence of dot-free name atoms and "." atoms, so     *)
(* split(".") and template-literal concatenation are computed, not         *)
(* assumed.  An object is a function from keys to values; a key that is    *)
(* not in the domain reads as undefined.                                   *)
(***************************************************************************)
EXTENDS Integers, Sequences, FiniteSets, TLC

\* ------------------------------------------------------------------ bounds
\* Largest string / array length and largest minLength / maxLength bound.
MaxSize == 2

\* --------------------------------------------------------------- JS values
Undefined == [kind |-> "undefined"]
Null == [kind |-> "null"]
Date == [kind |-> "date"]
Bool(b) == [kind |-> "boolean", val |-> b]
Num(n) == [kind |-> "number", val |-> n]
Str(s) == [kind |-> "string", val |-> s]
Arr(q) == [kind |-> "array", val |-> q]
Obj(f) == [kind |-> "object", val |-> f]
Fn(name) == [kind |-> "function", name |-> name]
SchemaOf(fields) == [kind |-> "schema", val |-> fields]

EmptyObj == Obj([k \in {} |-> Undefined])

\* typeof value
TypeOf(v) ==
  CASE v.kind \in {"undefined", "string", "number", "boolean", "function"} -> Str(<<v.kind>>)
    [] OTHER -> Str(<<"object">>)

\* Array.isArray(value)
IsArray(v) == v.kind = "array"

\* a thrown Error / TypeError; its message is the sequence of atoms of the text
Error(name, message) == [kind |-> "error", name |-> name, message |-> message]
IsError(v) == v.kind = "error"

\* completion of a call: a returned value, or a thrown error
Return(v) == [threw |-> FALSE, val |-> v]
Throw(e) == [threw |-> TRUE, val |-> e]

\* value || fallback, for a string message
OrElse(msg, fallback) ==
  IF msg.kind = "string" /\ msg.val # <<>> THEN msg.val ELSE fallback

\* `${n}` for the small numbers of the model
NumText(n) == <<"0", "1", "2", "3", "4", "5", "6", "7", "8", "9">>[n + 1]

\* obj[key] for a value that is neither undefined nor null
Get(o, key) ==
  IF o.kind = "object" /\ key \in DOMAIN o.val THEN o.val[key] ELSE Undefined

\* obj[key] = v on a plain object
Put(o, key, v) ==
  Obj([k \in (DOMAIN o.val) \cup {key} |-> IF k = key THEN v ELSE o.val[k]])

\* delete obj[key]
Delete(o, key) == Obj([k \in (DOMAIN o.val) \ {key} |-> o.val[k]])

\* Object.keys(value).length ; Object.keys(null) throws (handled by the caller)
KeyCount(v) ==
  CASE v.kind = "object" -> Cardinality(DOMAIN v.val)
    [] v.kind = "array" -> Len(v.val)
    [] OTHER -> 0

\* the members of the SchemaTypes enumeration (src/lib/schema-types is not
\* part of the sources; the members are those the documentation lists)
SchemaTypes ==
  {Str(<<"string">>), Str(<<"number">>), Str(<<"boolean">>), Str(<<"object">>),
   Str(<<"array">>)}

\* --------------------------------------------------- user-supplied functions
\* default suppliers, custom predicates and transforms of the schemas checked
Call(fn, arg) ==
  CASE fn.name = "constFalse" -> Bool(FALSE)
    [] fn.name = "constAB" -> Str(<<"a", "b">>)
    [] fn.name = "constNull" -> Null
    [] fn.name = "constEmptyObj" -> EmptyObj
    [] fn.name = "isString" -> Bool(arg.kind = "string")
    [] fn.name = "never" -> Bool(FALSE)
    [] fn.name = "wrapArr" -> Arr(<<arg>>)
    [] fn.name = "wrapObj" -> Obj([k \in {<<"t">>} |-> arg])
    [] OTHER -> Undefined

\* a value in a boolean position
Truthy(v) ==
  CASE v.kind \in {"undefined", "null"} -> FALSE
    [] v.kind = "boolean" -> v.val
    [] v.kind = "number" -> v.val # 0
    [] v.kind = "string" -> v.val # <<>>
    [] OTHER -> TRUE

\* ---------------------------------------------------------- rule evaluators
Ok == Return(Undefined)

\* validateType with an array checked by typeof, like the other types
validateType_ArrayByTypeof(value, type, key) ==
  IF type \notin SchemaTypes
  THEN Throw(Error("Error", <<"Invalid type for ">> \o key))
  ELSE IF value # Undefined /\ value # Null /\ TypeOf(value) # type
  THEN Throw(Error("Error", key \o <<" must be of type ">> \o type.val
                            \o <<", but got ">> \o TypeOf(value).val))
  ELSE Ok

validateType(value, type, key) ==
  IF type \notin SchemaTypes
  THEN Throw(Error("Error", <<"Invalid type for ">> \o key))
  ELSE IF type = Undefined
  THEN Throw(Error("Error", <<"A type for ">> \o key \o <<" must be specified">>))
  ELSE IF value # Undefined /\ value # Null
  THEN IF type = Str(<<"array">>)
       THEN IF ~IsArray(value)
            THEN Throw(Error("Error", key \o <<" must be of type ">> \o type.val
                                      \o <<", but got ">> \o TypeOf(value).val))
            ELSE Ok
       ELSE IF TypeOf(value) # type
            THEN Throw(Error("Error", key \o <<" must be of type ">> \o type.val
                                      \o <<", but got ">> \o TypeOf(value).val))
            ELSE Ok
  ELSE Ok

\* validateRequired with only undefined counted as absent
validateRequired_NullPresent(value, required, key) ==
  IF required = Undefined THEN Ok
  ELSE LET isRequired == IF IsArray(required) THEN required.val[1] ELSE required
           error == IF IsArray(required) THEN required.val[2] ELSE Str(<<>>)
       IN IF ~isRequired.val \/ value # Undefined
          THEN Ok
          ELSE Throw(Error("Error", OrElse(error, key \o <<" is required">>)))

validateRequired(value, required, key) ==
  IF required = Undefined THEN Ok
  ELSE LET isRequired == IF IsArray(required) THEN required.val[1] ELSE required
           error == IF IsArray(required) THEN required.val[2] ELSE Str(<<>>)
       IN IF TypeOf(isRequired) # Str(<<"boolean">>)
          THEN Throw(Error("Error", <<"\"required\" property for ">> \o key
                                    \o <<" must be a boolean, or an array containing a boolean as its first element">>))
          ELSE IF ~isRequired.val \/ (value # Undefined /\ value # Null)
          THEN Ok
          ELSE Throw(Error("Error", OrElse(error, key \o <<" is required">>)))

validateMinLength(value, minLength, key) ==
  IF minLength = Undefined THEN Ok
  ELSE LET length == IF IsArray(minLength) THEN minLength.val[1] ELSE minLength
           error == IF IsArray(minLength) THEN minLength.val[2] ELSE Str(<<>>)
       IN IF TypeOf(length) # Str(<<"number">>)
          THEN Throw(Error("Error", <<"\"minlength\" property for ">> \o key
                                    \o <<" must be a number, or an array containing a number as its first element">>))
          ELSE IF value.kind = "string" /\ Len(value.val) < length.val
          THEN Throw(Error("Error", OrElse(error, key \o <<" must be at least ", NumText(length.val), " characters long">>)))
          ELSE IF IsArray(value) /\ Len(value.val) < length.val
          THEN Throw(Error("Error", OrElse(error, key \o <<" must contain at least ", NumText(length.val), " elements">>)))
          ELSE IF TypeOf(value) = Str(<<"object">>)
          THEN IF value = Null
               THEN Throw(Error("TypeError", <<"Cannot convert undefined or null to object">>))
               ELSE IF KeyCount(value) < length.val
               THEN Throw(Error("Error", OrElse(error, key \o <<" must contain at least ", NumText(length.val), " properties">>)))
               ELSE Ok
          ELSE Ok

validateMaxLength(value, maxLength, key) ==
  IF maxLength = Undefined THEN Ok
  ELSE LET length == IF IsArray(maxLength) THEN maxLength.val[1] ELSE maxLength
           error == IF IsArray(maxLength) THEN maxLength.val[2] ELSE Str(<<>>)
       IN IF TypeOf(length) # Str(<<"number">>)
          THEN Throw(Error("Error", <<"\"maxlength\" property for ">> \o key
                                    \o <<" must be a number, or an array containing a number as its first element">>))
          ELSE IF value.kind = "string" /\ Len(value.val) > length.val
          THEN Throw(Error("Error", OrElse(error, key \o <<" must be at most ", NumText(length.val), " characters long">>)))
          ELSE IF IsArray(value) /\ Len(value.val) > length.val
          THEN Throw(Error("Error", OrElse(error, key \o <<" must contain at most ", NumText(length.val), " elements">>)))
          ELSE IF TypeOf(value) = Str(<<"object">>)
          THEN IF value = Null
               THEN Throw(Error("TypeError", <<"Cannot convert undefined or null to object">>))
               ELSE IF KeyCount(value) > length.val
               THEN Throw(Error("Error", OrElse(error, key \o <<" must contain at most ", NumText(length.val), " properties">>)))
               ELSE Ok
          ELSE Ok

\* whether validateCustom calls the predicate, and the predicate it calls
customPredicate(validate) == IF IsArray(validate) THEN validate.val[1] ELSE validate

callsCustom(value, validate) ==
  /\ value # Undefined
  /\ validate # Undefined
  /\ TypeOf(validate) = Str(<<"function">>) \/ IsArray(validate)
  /\ TypeOf(customPredicate(validate)) = Str(<<"function">>)

\* validateCustom with null skipped like undefined
validateCustom_SkipNull(value, validate, key) ==
  IF value = Undefined \/ value = Null \/ validate = Undefined THEN Ok
  ELSE LET error == IF IsArray(validate) THEN validate.val[2] ELSE Str(<<>>)
       IN IF Truthy(Call(customPredicate(validate), value))
          THEN Ok
          ELSE Throw(Error("Error", OrElse(error, key \o <<" failed custom validation">>)))

validateCustom(value, validate, key) ==
  IF value = Undefined \/ validate = Undefined THEN Ok
  ELSE IF TypeOf(validate) # Str(<<"function">>) /\ ~IsArray(validate)
  THEN Throw(Error("Error", <<"\"validate\" property for ">> \o key
                            \o <<" must be a function or an array containing a function as its first element">>))
  ELSE LET customValidate == customPredicate(validate)
           error == IF IsArray(validate) THEN validate.val[2] ELSE Str(<<>>)
       IN IF TypeOf(customValidate) # Str(<<"function">>)
          THEN Throw(Error("Error", <<"\"validate\" property for ">> \o key
                                    \o <<" must be a function or an array containing a function as its first element">>))
          ELSE IF Truthy(Call(customValidate, value))
          THEN Ok
          ELSE Throw(Error("Error", OrElse(error, key \o <<" failed custom validation">>)))

\* validateArrayTypes with some in place of every
validateArrayTypes_Some(value, type, key) ==
  IF ~IsArray(value) \/ type = Undefined THEN Ok
  ELSE IF \E i \in 1..Len(value.val) : TypeOf(value.val[i]) = type
  THEN Ok
  ELSE Throw(Error("Error", <<"All elements in ">> \o key \o <<" must be of type ">> \o type.val))

validateArrayTypes(value, type, key) ==
  IF ~IsArray(value) \/ type = Undefined THEN Ok
  ELSE IF \A i \in 1..Len(value.val) : TypeOf(value.val[i]) = type
  THEN Ok
  ELSE Throw(Error("Error", <<"All elements in ">> \o key \o <<" must be of type ">> \o type.val))

setDefault(defaultFn, key) ==
  IF TypeOf(defaultFn) # Str(<<"function">>)
  THEN Throw(Error("Error", <<"\"default\" property for ">> \o key \o <<" must be a function">>))
  ELSE Return(Call(defaultFn, Undefined))

doTransform(value, transformFn, key) ==
  IF TypeOf(transformFn) # Str(<<"function">>)
  THEN Throw(Error("Error", <<"\"transform\" property for ">> \o key \o <<" must be a function">>))
  ELSE Return(Call(transformFn, value))

\* ------------------------------------------------------------ schema nodes
\* A schema node is the sequence of its entries, in declaration order.
Field(key, def) == [key |-> key, def |-> def]

\* schema[key]
SchemaGet(schema, key) ==
  IF \E i \in 1..Len(schema) : schema[i].key = key
  THEN schema[CHOOSE i \in 1..Len(schema) : schema[i].key = key].def
  ELSE Undefined

\* the field definition a path of keys leads to, through the nested schemas
RECURSIVE DefAt(_, _)
DefAt(schema, path) ==
  LET def == SchemaGet(schema, Head(path))
  IN IF Len(path) = 1 \/ def = Undefined \/ def.schema = Undefined THEN def
     ELSE DefAt(def.schema.val, Tail(path))

\* ------------------------------------------------------------- path codec
\* key.split(".")
RECURSIVE Split(_)
Split(key) ==
  IF key = <<>> THEN << <<>> >>
  ELSE LET rest == Split(Tail(key))
       IN IF Head(key) = "." THEN << <<>> >> \o rest
          ELSE << <<Head(key)>> \o Head(rest) >> \o Tail(rest)

\* an enumeration of a finite set of keys (the iteration order of an object
\* whose insertion order is not tracked)
RECURSIVE KeySeq(_)
KeySeq(S) ==
  IF S = {} THEN <<>>
  ELSE LET k == CHOOSE key \in S : TRUE IN <<k>> \o KeySeq(S \ {k})

\* the inner loop of nestData and the final assignment: walks objRef along
\* keys, creating the missing levels, and assigns v at the last key
RECURSIVE AssignPath(_, _, _)
AssignPath(objRef, keys, v) ==
  CASE objRef.kind = "object" ->
         IF Len(keys) = 1 THEN Return(Put(objRef, keys[1], v))
         ELSE LET child == IF Get(objRef, keys[1]) = Undefined THEN EmptyObj
                           ELSE Get(objRef, keys[1])
                  r == AssignPath(child, Tail(keys), v)
              IN IF r.threw THEN r ELSE Return(Put(objRef, keys[1], r.val))
    [] objRef.kind = "null" ->
         Throw(Error("TypeError", <<"Cannot read or set properties of null">>))
    [] objRef.kind \in {"string", "number", "boolean"} ->
         \* strict mode: a property cannot be created on a primitive
         Throw(Error("TypeError", <<"Cannot create property on primitive">>))
    [] OTHER -> Throw(Error("Unmodelled", <<"property added to an array or date">>))

RECURSIVE NestFrom(_, _, _)
NestFrom(nestedObj, data, order) ==
  IF order = <<>> THEN Return(nestedObj)
  ELSE LET r == AssignPath(nestedObj, Split(Head(order)), data.val[Head(order)])
       IN IF r.threw THEN r ELSE NestFrom(r.val, data, Tail(order))

\* nestData(data), order being the order in which for-in visits data's keys
nestData(data, order) ==
  CASE data.kind = "object" -> NestFrom(EmptyObj, data, order)
    [] data.kind \in {"undefined", "null", "date", "number", "boolean"} -> Return(EmptyObj)
    [] OTHER -> Throw(Error("Unmodelled", <<"nestData of an array or string">>))

\* the plain objects flattenData descends into
IsPlainObject(value) == value.kind = "object"

\* Object.assign(result, source), source's keys taken in order
RECURSIVE AssignAll(_, _, _)
AssignAll(result, source, order) ==
  IF order = <<>> THEN result
  ELSE AssignAll(Put(result, Head(order), source.val[Head(order)]), source, Tail(order))

RECURSIVE FlattenFrom(_, _, _, _)
RECURSIVE flattenData(_, _)
FlattenFrom(result, data, prefix, order) ==
  IF order = <<>> THEN result
  ELSE LET key == Head(order)
           value == data.val[key]
           next == IF IsPlainObject(value)
                   THEN LET sub == flattenData(value, prefix \o key \o <<".">>)
                        IN AssignAll(result, sub, KeySeq(DOMAIN sub.val))
                   ELSE Put(result, prefix \o key, value)
       IN FlattenFrom(next, data, prefix, Tail(order))

\* flattenData without the descent into nested objects
flattenData_Shallow(data, prefix) == data

\* flattenData(data, prefix) of a plain object
flattenData(data, prefix) ==
  FlattenFrom(EmptyObj, data, prefix, KeySeq(DOMAIN data.val))

\* ---------------------------------------------------------------- stripper
\* stripData(data, schema): the record after the deletions
stripData(data, schema) ==
  IF data.kind # "object" THEN data
  ELSE Obj([key \in {k \in DOMAIN data.val : ~(SchemaGet(schema, k) # Undefined)}
             |-> data.val[key]])

\* ------------------------------------------------------------------- state
VARIABLES
  definition,  \* this.definition: the root schema node of the Schema
  input,       \* the record the caller passes to validate
  keyOrder,    \* the insertion order of input's keys (what for-in follows)
  options,     \* the ValidationOptions of the call
  stack,       \* the validate invocations in progress, outermost first
  status,      \* "idle", "running", "resolved" or "rejected"
  result,      \* what the promise settled with: the record, or the error
  log,         \* the rule evaluations and user-function calls made so far
  call,        \* the Model method invocation: method, arguments, hook, position
  store,       \* the beforeSave calls and Firestore writes made so far, in order
  heap,        \* the objects with identity, by address: Query instances, records
  names,       \* the caller's variables holding Query references
  sent         \* the Firestore queries that get() has built and executed

modelVars == <<call, store>>
queryVars == <<heap, names, sent>>
vars == <<definition, input, keyOrder, options, stack, status, result, log, modelVars, queryVars>>

\* no Model method and no Query is involved
NoModel == call = [method |-> "none"] /\ store = <<>>
NoQuery == heap = <<>> /\ names = <<>> /\ sent = <<>>

\* one entry of the log
Event(ev, path, arg, out) == [ev |-> ev, path |-> path, arg |-> arg, out |-> out]

\* one validate invocation: its schema node, its dataToCheck, the index of
\* the next schema entry of its for-in loop, and the path of keys it is at
Frame(schema, data, i, path) == [schema |-> schema, data |-> data, i |-> i, path |-> path]

\* --------------------------------------------------------------- validate
\* an entry that removes the undeclared keys whatever skipStrip says
Enter_StripsUndeclared(data, schema, path, order, opts) ==
  LET nested == IF opts.allowDotNotation THEN nestData(data, order) ELSE Return(data)
      nestEv == IF opts.allowDotNotation THEN <<Event("nest", path, data, nested)>> ELSE <<>>
  IN IF nested.threw THEN [out |-> nested, data |-> data, ev |-> nestEv]
     ELSE IF nested.val.kind # "object" THEN [out |-> Ok, data |-> nested.val, ev |-> nestEv]
     ELSE [out |-> Ok,
           data |-> Obj([key \in {k \in DOMAIN nested.val.val : SchemaGet(schema, k) # Undefined}
                          |-> nested.val.val[key]]),
           ev |-> nestEv]

\* validate, lines 486-495: the schema node defaults to the definition, the
\* data is nested when dot notation is allowed, and stripped unless skipped
Enter(data, schema, path, order, opts) ==
  LET nested == IF opts.allowDotNotation THEN nestData(data, order) ELSE Return(data)
      nestEv == IF opts.allowDotNotation THEN <<Event("nest", path, data, nested)>> ELSE <<>>
  IN IF nested.threw THEN [out |-> nested, data |-> data, ev |-> nestEv]
     ELSE IF nested.val.kind \notin {"object", "undefined", "null"}
     THEN [out |-> Throw(Error("Unmodelled", <<"validate of an array, date or primitive">>)),
           data |-> data, ev |-> nestEv]
     ELSE IF ~opts.skipStrip
     THEN LET stripped == stripData(nested.val, schema)
          IN [out |-> Ok, data |-> stripped,
              ev |-> Append(nestEv, Event("strip", path, nested.val, Return(stripped)))]
     ELSE [out |-> Ok, data |-> nested.val, ev |-> nestEv]

\* a loop body that goes on after a throw
Rule_KeepGoing(st, name, path, completion) ==
  [st EXCEPT !.out = IF completion.threw THEN completion ELSE @,
             !.ev = Append(@, Event(name, path, st.value, completion))]

\* one evaluation of the loop body: st is [value, data, out, ev]; a step that
\* finds an earlier throw does nothing
Rule(st, name, path, completion) ==
  IF st.out.threw THEN st
  ELSE [st EXCEPT !.out = IF completion.threw THEN completion ELSE Ok,
                  !.ev = Append(@, Event(name, path, st.value, completion))]

\* lines 512-517
DefaultStep(st, def, key, path, opts) ==
  IF st.out.threw \/ opts.skipDefault THEN st
  ELSE IF st.value = Undefined /\ def.default # Undefined
  THEN LET c == setDefault(def.default, key)
       IN IF c.threw
          THEN [st EXCEPT !.out = c, !.ev = Append(@, Event("default", path, Undefined, c))]
          ELSE [st EXCEPT !.value = c.val, !.data = Put(st.data, key, c.val),
                          !.ev = Append(@, Event("default", path, Undefined, c))]
  ELSE st

\* lines 519-522
RequiredStep(st, def, key, path, opts) ==
  IF opts.skipRequired THEN st
  ELSE Rule(st, "required", path, validateRequired(st.value, def.required, key))

\* line 532: the predicate is called inside validateCustom
CustomStep(st, def, key, path) ==
  IF st.out.threw THEN st
  ELSE LET called == IF callsCustom(st.value, def.validate)
                     THEN [st EXCEPT !.ev = Append(@, Event("predicate", path, st.value,
                                           Return(Call(customPredicate(def.validate), st.value))))]
                     ELSE st
       IN Rule(called, "custom", path, validateCustom(st.value, def.validate, key))

\* the transform applied to an undefined value as well
TransformStep_OnUndefined(st, def, key, path) ==
  IF st.out.threw THEN st
  ELSE IF def.transform # Undefined
  THEN LET c == doTransform(st.value, def.transform, key)
       IN [st EXCEPT !.value = c.val, !.data = Put(st.data, key, c.val),
                     !.ev = Append(@, Event("transform", path, st.value, c))]
  ELSE st

\* lines 537-540
TransformStep(st, def, key, path) ==
  IF st.out.threw THEN st
  ELSE IF st.value # Undefined /\ def.transform # Undefined
  THEN LET c == doTransform(st.value, def.transform, key)
       IN IF c.threw
          THEN [st EXCEPT !.out = c, !.ev = Append(@, Event("transform", path, st.value, c))]
          ELSE [st EXCEPT !.value = c.val, !.data = Put(st.data, key, c.val),
                          !.ev = Append(@, Event("transform", path, st.value, c))]
  ELSE st

\* a loop body that checks minLength before maxLength
FieldRun_MinFirst(frame, opts) ==
  LET key == frame.schema[frame.i].key
      def == frame.schema[frame.i].def
      path == Append(frame.path, key)
      s0 == IF frame.data \in {Undefined, Null}
            THEN LET c == Throw(Error("TypeError", <<"Cannot read properties of undefined or null">>))
                 IN [value |-> Undefined, data |-> frame.data, out |-> c,
                     ev |-> <<Event("read", path, frame.data, c)>>]
            ELSE [value |-> Get(frame.data, key), data |-> frame.data, out |-> Ok, ev |-> <<>>]
      s1 == DefaultStep(s0, def, key, path, opts)
      s2 == RequiredStep(s1, def, key, path, opts)
      s3 == Rule(s2, "type", path, validateType(s2.value, def.type, key))
      s4 == Rule(s3, "minLength", path, validateMinLength(s3.value, def.minLength, key))
      s5 == Rule(s4, "maxLength", path, validateMaxLength(s4.value, def.maxLength, key))
      s6 == CustomStep(s5, def, key, path)
      s7 == Rule(s6, "arrayOf", path, validateArrayTypes(s6.value, def.arrayOf, key))
  IN TransformStep(s7, def, key, path)

\* lines 498-540 for the schema entry the frame is at: the value read, then
\* default, required, type, maxLength, minLength, custom, array elements and
\* transform, stopping at the first throw
FieldRun(frame, opts) ==
  LET key == frame.schema[frame.i].key
      def == frame.schema[frame.i].def
      path == Append(frame.path, key)
      s0 == IF frame.data \in {Undefined, Null}
            THEN LET c == Throw(Error("TypeError", <<"Cannot read properties of undefined or null">>))
                 IN [value |-> Undefined, data |-> frame.data, out |-> c,
                     ev |-> <<Event("read", path, frame.data, c)>>]
            ELSE [value |-> Get(frame.data, key), data |-> frame.data, out |-> Ok, ev |-> <<>>]
      s1 == DefaultStep(s0, def, key, path, opts)
      s2 == RequiredStep(s1, def, key, path, opts)
      s3 == Rule(s2, "type", path, validateType(s2.value, def.type, key))
      s4 == Rule(s3, "maxLength", path, validateMaxLength(s3.value, def.maxLength, key))
      s5 == Rule(s4, "minLength", path, validateMinLength(s4.value, def.minLength, key))
      s6 == CustomStep(s5, def, key, path)
      s7 == Rule(s6, "arrayOf", path, validateArrayTypes(s6.value, def.arrayOf, key))
  IN TransformStep(s7, def, key, path)

Top == stack[Len(stack)]
AtField == status = "running" /\ Top.i <= Len(Top.schema)
AtEnd == status = "running" /\ Top.i > Len(Top.schema)
ReplaceTop(frame) == [stack EXCEPT ![Len(stack)] = frame]

\* the caller invokes schema.validate(input, undefined, options)
CallValidate ==
  /\ status = "idle"
  /\ LET e == Enter(input, definition, <<>>, keyOrder, options)
     IN /\ log' = log \o e.ev
        /\ IF e.out.threw
           THEN status' = "rejected" /\ result' = e.out.val /\ stack' = <<>>
           ELSE /\ status' = "running"
                /\ result' = result
                /\ stack' = <<Frame(definition, e.data, 1, <<>>)>>
  /\ UNCHANGED <<definition, input, keyOrder, options, modelVars, queryVars>>

\* a rule of the field throws: the promise of every level is rejected
FieldThrow ==
  /\ AtField
  /\ LET r == FieldRun(Top, options)
     IN /\ r.out.threw
        /\ log' = log \o r.ev
        /\ status' = "rejected"
        /\ result' = r.out.val
        /\ stack' = <<>>
  /\ UNCHANGED <<definition, input, keyOrder, options, modelVars, queryVars>>

\* the field passes and declares no nested schema: on to the next entry
FieldPass ==
  /\ AtField
  /\ LET r == FieldRun(Top, options)
     IN /\ ~r.out.threw
        /\ Top.schema[Top.i].def.schema = Undefined
        /\ log' = log \o r.ev
        /\ stack' = ReplaceTop([Top EXCEPT !.data = r.data, !.i = @ + 1])
  /\ UNCHANGED <<definition, input, keyOrder, options, status, result, modelVars, queryVars>>

\* the field passes and declares a nested schema: line 544 calls validate on
\* the value, with the nested schema and the same options
FieldRecurse ==
  /\ AtField
  /\ LET r == FieldRun(Top, options)
         def == Top.schema[Top.i].def
         path == Append(Top.path, Top.schema[Top.i].key)
     IN /\ ~r.out.threw
        /\ def.schema # Undefined
        /\ LET order == IF r.value.kind = "object" THEN KeySeq(DOMAIN r.value.val) ELSE <<>>
               e == Enter(r.value, def.schema.val, path, order, options)
           IN /\ log' = log \o r.ev \o e.ev
              /\ IF e.out.threw
                 THEN status' = "rejected" /\ result' = e.out.val /\ stack' = <<>>
                 ELSE /\ status' = status
                      /\ result' = result
                      /\ stack' = Append(ReplaceTop([Top EXCEPT !.data = r.data]),
                                         Frame(def.schema.val, e.data, 1, path))
  /\ UNCHANGED <<definition, input, keyOrder, options, modelVars, queryVars>>

\* a return that flattens in the outermost invocation only
Returned_RootOnly(frame, opts) ==
  IF opts.allowDotNotation /\ frame.path = <<>> THEN flattenData(frame.data, <<>>) ELSE frame.data

\* a return that flattens whatever the options say
Returned_AlwaysFlatten(frame, opts) ==
  IF IsPlainObject(frame.data) THEN flattenData(frame.data, <<>>) ELSE frame.data

\* lines 548-553: what a validate invocation returns
Returned(frame, opts) ==
  IF opts.allowDotNotation THEN flattenData(frame.data, <<>>) ELSE frame.data

ReturnEv(frame, opts) ==
  IF opts.allowDotNotation
  THEN <<Event("flatten", frame.path, frame.data, Return(Returned(frame, opts)))>>
  ELSE <<>>

\* a nested invocation returns: line 544 stores its result in the parent
ReturnNested ==
  /\ AtEnd
  /\ Len(stack) > 1
  /\ LET parent == stack[Len(stack) - 1]
         key == parent.schema[parent.i].key
     IN stack' = Append(SubSeq(stack, 1, Len(stack) - 2),
                        [parent EXCEPT !.data = Put(@, key, Returned(Top, options)),
                                       !.i = @ + 1])
  /\ log' = log \o ReturnEv(Top, options)
  /\ UNCHANGED <<definition, input, keyOrder, options, status, result, modelVars, queryVars>>

\* the outermost invocation returns: the promise resolves with the record
ReturnRoot ==
  /\ AtEnd
  /\ Len(stack) = 1
  /\ status' = "resolved"
  /\ result' = Returned(Top, options)
  /\ stack' = <<>>
  /\ log' = log \o ReturnEv(Top, options)
  /\ UNCHANGED <<definition, input, keyOrder, options, modelVars, queryVars>>

\* ------------------------------------------------- the schemas and inputs
\* keys
A == <<"a">>
B == <<"b">>
X == <<"x">>
Y == <<"y">>
details == <<"details">>
isAdmin == <<"isAdmin">>
bio == <<"bio">>
Dot(k1, k2) == k1 \o <<".">> \o k2

T(name) == Str(<<name>>)
Msg == Str(<<"m">>)

\* a field definition with a type and no other property
FieldDef(type) ==
  [kind |-> "field", type |-> type, required |-> Undefined, maxLength |-> Undefined,
   minLength |-> Undefined, arrayOf |-> Undefined, validate |-> Undefined,
   transform |-> Undefined, default |-> Undefined, schema |-> Undefined]

Options(strip, req, def, dot) ==
  [skipStrip |-> strip, skipRequired |-> req, skipDefault |-> def, allowDotNotation |-> dot]
AllOptions == [skipStrip : BOOLEAN, skipRequired : BOOLEAN, skipDefault : BOOLEAN,
               allowDotNotation : BOOLEAN]
NoOptions == Options(FALSE, FALSE, FALSE, FALSE)

\* values a field can hold; Undefined stands for a key the record lacks
Strings == {Str([i \in 1..n |-> "a"]) : n \in 0..MaxSize}
Elements == {Str(<<"a">>), Num(1), Arr(<<>>)}
Arrays == {Arr(q) : q \in UNION {[1..n -> Elements] : n \in 0..MaxSize}}
PropName(i) == <<"p", "q", "r", "s", "u">>[i]
Objects == {Obj([k \in {<<PropName(i)>> : i \in 1..n} |-> Num(1)]) : n \in 0..MaxSize}
Values ==
  {Undefined, Null, Date, Num(0), Num(1), Bool(TRUE)} \cup Strings \cup Arrays \cup Objects

\* the record {key: value}; {} when the value is Undefined
Record1(key, value) == IF value = Undefined THEN EmptyObj ELSE Obj([k \in {key} |-> value])

\* record.key = value added to a record
With(record, key, value) == IF value = Undefined THEN record ELSE Put(record, key, value)

StripOptions == {Options(s, FALSE, FALSE, FALSE) : s \in BOOLEAN}

TypeDefs == {FieldDef(t) : t \in SchemaTypes \cup {T("date"), Undefined}}

Requireds ==
  {Bool(TRUE), Bool(FALSE), Arr(<<Bool(TRUE), Msg>>), Arr(<<Bool(FALSE), Msg>>),
   Arr(<<Bool(TRUE), Str(<<>>)>>)}
RequiredDefs ==
  {[FieldDef(T("string")) EXCEPT !.required = r, !.default = d] :
     r \in Requireds, d \in {Undefined, Fn("constAB"), Fn("constNull")}}
RequiredOptions == {Options(s, r, d, FALSE) : s \in BOOLEAN, r \in BOOLEAN, d \in BOOLEAN}

Lengths == {Undefined, Arr(<<Num(1), Msg>>)} \cup {Num(n) : n \in 0..MaxSize}
LengthDefs ==
  {[FieldDef(t) EXCEPT !.maxLength = mx, !.minLength = mn] :
     t \in {T("string"), T("array"), T("object"), T("number")},
     mx \in Lengths, mn \in Lengths}

Predicates ==
  {Fn("isString"), Fn("never"), Fn("constAB"),
   Arr(<<Fn("isString"), Msg>>), Arr(<<Fn("never"), Msg>>)}
CustomDefs ==
  {[FieldDef(t) EXCEPT !.validate = p] : t \in {T("string"), T("object")}, p \in Predicates}

ArrayOfDefs ==
  {[FieldDef(t) EXCEPT !.arrayOf = e] :
     t \in {T("array"), T("object")},
     e \in {T("string"), T("number"), T("object"), T("array")}}

\* a transform behind each of the rules that can fail before it
Guarded(t) ==
  {FieldDef(t),
   [FieldDef(t) EXCEPT !.required = Bool(TRUE)],
   [FieldDef(t) EXCEPT !.maxLength = Num(1)],
   [FieldDef(t) EXCEPT !.minLength = Num(1)],
   [FieldDef(t) EXCEPT !.validate = Fn("isString")],
   [FieldDef(t) EXCEPT !.validate = Fn("never")],
   [FieldDef(t) EXCEPT !.arrayOf = T("string")],
   [FieldDef(t) EXCEPT !.default = Fn("constAB")]}
TransformDefs ==
  {[d EXCEPT !.transform = f] :
     d \in UNION {Guarded(t) : t \in {T("string"), T("array"), T("object")}},
     f \in {Fn("wrapArr"), Fn("wrapObj")}}
TransformOptions == {Options(s, FALSE, d, n) : s \in BOOLEAN, d \in BOOLEAN, n \in BOOLEAN}

\* fields whose value can violate several rules at once
ConflictDefs ==
  {[FieldDef(T("date")) EXCEPT !.required = Bool(TRUE)]}
    \cup {[FieldDef(t) EXCEPT !.required = Bool(TRUE), !.maxLength = Num(0), !.minLength = Num(2),
                              !.validate = Fn("never"), !.arrayOf = T("string"),
                              !.transform = Fn("wrapArr")] :
            t \in {T("string"), T("number"), T("array")}}

\* two declared keys and two undeclared ones, every subset, every option
StripSchemas ==
  {<<Field(A, FieldDef(T("string")))>>,
   <<Field(A, FieldDef(T("string"))), Field(B, FieldDef(T("number")))>>,
   <<Field(B, FieldDef(T("number"))), Field(A, FieldDef(T("string")))>>}
StripRecords ==
  {With(With(With(With(EmptyObj, A, a), B, b), X, x), Y, y) :
     a \in {Undefined, Str(<<"a">>)}, b \in {Undefined, Num(1)},
     x \in {Undefined, Num(0)}, y \in {Undefined, EmptyObj}}

\* several fields, each with functions whose calls the log shows
Effectful ==
  {[FieldDef(T("string")) EXCEPT !.default = Fn("constAB"), !.validate = Fn("isString"),
                                 !.transform = Fn("wrapArr")],
   [FieldDef(T("string")) EXCEPT !.required = Bool(TRUE), !.transform = Fn("wrapObj")],
   [FieldDef(T("number")) EXCEPT !.default = Fn("constFalse")],
   [FieldDef(T("string")) EXCEPT !.validate = Fn("never"), !.default = Fn("constNull")]}
SequenceValuesA == {Undefined, Str(<<"a">>), Num(1)}
SequenceValuesB == {Undefined, Str(<<"a">>)}

\* nested schemas: details {isAdmin}, with the properties the examples of
\* the documentation give it, and a sibling field after it
AdminDef == [FieldDef(T("boolean")) EXCEPT !.default = Fn("constFalse")]
Inner ==
  {<<Field(isAdmin, AdminDef)>>,
   <<Field(isAdmin, [AdminDef EXCEPT !.required = Bool(TRUE)]),
     Field(A, [FieldDef(T("object")) EXCEPT !.schema = SchemaOf(<<Field(B, FieldDef(T("string")))>>)])>>,
   <<>>}
DetailsDefs ==
  {[d EXCEPT !.schema = SchemaOf(inner)] :
     d \in {FieldDef(T("object")),
            [FieldDef(T("object")) EXCEPT !.default = Fn("constEmptyObj")],
            [FieldDef(T("object")) EXCEPT !.required = Bool(TRUE)],
            [FieldDef(T("object")) EXCEPT !.transform = Fn("wrapObj")]},
     inner \in Inner}
NestedSchemas ==
  {<<Field(details, d)>> : d \in DetailsDefs}
    \cup {<<Field(details, d), Field(B, [FieldDef(T("string")) EXCEPT !.default = Fn("constAB")])>> :
            d \in DetailsDefs}
InnerRecords ==
  {With(With(With(EmptyObj, isAdmin, i), bio, s), A, a) :
     i \in {Undefined, Bool(TRUE), Num(1)}, s \in {Undefined, Str(<<"a">>)},
     a \in {Undefined, Record1(B, Str(<<"a">>)), Record1(X, Num(1))}}
NestedRecords ==
  {Record1(details, v) : v \in {Undefined, Null} \cup InnerRecords}
    \cup {With(With(With(EmptyObj, Dot(details, bio), s), Dot(details, isAdmin), i), B, b) :
            s \in {Undefined, Str(<<"a">>)}, i \in {Undefined, Bool(TRUE)},
            b \in {Undefined, Str(<<"a">>)}}

\* flat keys that collide on a path, in both insertion orders
CollidingRecords ==
  {Obj([k \in {Dot(A, B), Dot(Dot(A, B), X)} |-> Num(1)]),
   Obj([k \in {A, Dot(A, B)} |-> Str(<<"a">>)]),
   Obj((A :> Record1(X, Num(1))) @@ (Dot(A, B) :> Num(0)))}
CollidingSchema == <<Field(A, FieldDef(T("object")))>>
Orders(record) == {p \in [1..2 -> DOMAIN record.val] : p[1] # p[2]}

\* the state before the call
Start(schema, data, opts, order) ==
  /\ definition = schema
  /\ input = data
  /\ keyOrder = order
  /\ options = opts
  /\ stack = <<>>
  /\ status = "idle"
  /\ result = Undefined
  /\ log = <<>>
  /\ NoModel
  /\ NoQuery

\* a one-field schema {a: def}, every value of a
OneField(defs, optionSet) ==
  \E d \in defs, v \in Values, o \in optionSet :
    Start(<<Field(A, d)>>, Record1(A, v), o, KeySeq(DOMAIN Record1(A, v).val))

Init ==
  \/ OneField(TypeDefs, StripOptions)
  \/ OneField(RequiredDefs, RequiredOptions)
  \/ OneField(LengthDefs, StripOptions)
  \/ OneField(CustomDefs, StripOptions)
  \/ OneField(ArrayOfDefs, StripOptions)
  \/ OneField(TransformDefs, TransformOptions)
  \/ OneField(ConflictDefs, RequiredOptions)
  \/ \E s \in StripSchemas, r \in StripRecords, o \in AllOptions :
       Start(s, r, o, KeySeq(DOMAIN r.val))
  \/ \E d1 \in Effectful, d2 \in Effectful, a \in SequenceValuesA, b \in SequenceValuesB,
        o \in RequiredOptions :
       LET r == With(With(EmptyObj, A, a), B, b)
       IN Start(<<Field(A, d1), Field(B, d2)>>, r, o, KeySeq(DOMAIN r.val))
  \/ \E s \in NestedSchemas, r \in NestedRecords, o \in AllOptions :
       Start(s, r, o, KeySeq(DOMAIN r.val))
  \/ \E r \in CollidingRecords, s \in BOOLEAN :
       \E q \in Orders(r) : Start(CollidingSchema, r, Options(s, FALSE, FALSE, TRUE), q)

Next ==
  \/ CallValidate
  \/ FieldThrow
  \/ FieldPass
  \/ FieldRecurse
  \/ ReturnNested
  \/ ReturnRoot

Spec == Init /\ [][Next]_vars

\* ------------------------------------------------------------ the claims
\* what the statements below read from the log
DefOf(i) == DefAt(definition, log[i].path)
KeyOf(i) == log[i].path[Len(log[i].path)]
Absent(v) == v = Undefined \/ v = Null
SamePlace(i, j) == log[i].path = log[j].path

\* the schema node a validate invocation at a path walks
NodeAt(path) == IF path = <<>> THEN definition ELSE DefAt(definition, path).schema.val

\* the record validate works on at the root: the input, nested when the call
\* allows dot notation
RootRecord == IF options.allowDotNotation THEN nestData(input, keyOrder).val ELSE input

\* a throw ends the run: the throwing evaluation is the last entry of the
\* log, the promise is rejected with its error and no invocation is left
Aborted(i) ==
  /\ i = Len(log)
  /\ status = "rejected"
  /\ result = log[i].out.val
  /\ stack = <<>>

\* C1: with stripping enabled, stripData deletes from the record exactly the
\* keys the schema node of that level does not declare, and keeps every
\* declared key with its value.
C1_StripDeletesUndeclared ==
  \A i \in DOMAIN log :
    (log[i].ev = "strip" /\ log[i].arg.kind = "object") =>
      LET before == log[i].arg.val
          after == log[i].out.val.val
      IN /\ DOMAIN after = {k \in DOMAIN before : SchemaGet(NodeAt(log[i].path), k) # Undefined}
         /\ \A k \in DOMAIN after : after[k] = before[k]

\* C2: for a root field with a default supplier, when defaults are not
\* skipped: the supplier is called exactly once when the input lacks the
\* field, the later rules see its result, and it is never called when the
\* input gives the field a value (null included).
DefaultCalls(path) == {j \in DOMAIN log : log[j].ev = "default" /\ log[j].path = path}

C2_DefaultOnlyWhenInputUndefined ==
  \A i \in DOMAIN log :
    (/\ log[i].ev \in {"required", "type"}
     /\ Len(log[i].path) = 1
     /\ DefOf(i).default # Undefined
     /\ ~options.skipDefault) =>
      IF Get(RootRecord, KeyOf(i)) = Undefined
      THEN /\ Cardinality(DefaultCalls(log[i].path)) = 1
           /\ \A j \in DefaultCalls(log[i].path) : log[j].arg = Undefined /\ log[i].arg = log[j].out.val
      ELSE DefaultCalls(log[i].path) = {}

\* C3: the required rule is evaluated exactly when skipRequired is not set;
\* it throws exactly for a field whose flag (the value, or the first element
\* of the pair) is true and whose value, after any default, is undefined or
\* null; the error carries the non-empty message of the pair, otherwise
\* "<field> is required"; and the throw rejects the whole call.
RequiredFlag(required) ==
  IF IsArray(required) THEN required.val[1] = Bool(TRUE) ELSE required = Bool(TRUE)
RequiredMessage(required, key) ==
  IF IsArray(required) /\ required.val[2].val # <<>> THEN required.val[2].val
  ELSE key \o <<" is required">>

C3_RequiredRule ==
  /\ \A i \in DOMAIN log :
       log[i].ev = "required" =>
         /\ ~options.skipRequired
         /\ log[i].out.threw <=> (RequiredFlag(DefOf(i).required) /\ Absent(log[i].arg))
         /\ log[i].out.threw =>
              /\ log[i].out.val = Error("Error", RequiredMessage(DefOf(i).required, KeyOf(i)))
              /\ Aborted(i)
  /\ \A i \in DOMAIN log :
       (log[i].ev = "type" /\ ~options.skipRequired) =>
         /\ i > 1
         /\ log[i - 1].ev = "required"
         /\ SamePlace(i - 1, i)
         /\ log[i - 1].arg = log[i].arg

C3_Witness ==
  \E i \in DOMAIN log :
    /\ log[i].ev = "required"
    /\ log[i].out.threw
    /\ log[i].arg = Null
    /\ IsArray(DefOf(i).required)
    /\ log[i].out.val.message = Msg.val
    /\ status = "rejected"

\* C4: the type rule throws exactly when the declared type is not one of
\* string, number, boolean, object, array (a missing type included), whatever
\* the value, or the value is neither undefined nor null and its kind does
\* not match: array by Array.isArray, the others by typeof.
KindMatches(value, type) ==
  CASE type = T("array") -> value.kind = "array"
    [] type = T("object") -> value.kind \in {"object", "array", "date", "null"}
    [] OTHER -> type = Str(<<value.kind>>)
Recognized(type) ==
  type \in {T("string"), T("number"), T("boolean"), T("object"), T("array")}

C4_TypeRule ==
  \A i \in DOMAIN log :
    log[i].ev = "type" =>
      /\ log[i].out.threw <=>
           \/ ~Recognized(DefOf(i).type)
           \/ ~Absent(log[i].arg) /\ ~KindMatches(log[i].arg, DefOf(i).type)
      /\ log[i].out.threw => Aborted(i)

C4_Witness ==
  \E i \in DOMAIN log :
    /\ log[i].ev = "type"
    /\ log[i].out.threw
    /\ log[i].arg = Undefined
    /\ DefOf(i).type = Undefined
    /\ status = "rejected"

\* C5: a length rule throws exactly when the value is a string, an array or
\* a plain object whose size is below minLength, or above maxLength; every
\* other value, null included, passes.
Bound(length) == IF IsArray(length) THEN length.val[1].val ELSE length.val
Sized(value) == value.kind \in {"string", "array", "object"}
SizeOf(value) == IF value.kind = "object" THEN Cardinality(DOMAIN value.val) ELSE Len(value.val)

C5_LengthRules ==
  \A i \in DOMAIN log :
    /\ log[i].ev = "maxLength" =>
         (log[i].out.threw <=>
            /\ DefOf(i).maxLength # Undefined
            /\ Sized(log[i].arg)
            /\ SizeOf(log[i].arg) > Bound(DefOf(i).maxLength))
    /\ log[i].ev = "minLength" =>
         (log[i].out.threw <=>
            /\ DefOf(i).minLength # Undefined
            /\ Sized(log[i].arg)
            /\ SizeOf(log[i].arg) < Bound(DefOf(i).minLength))

\* C6, as claimed: the custom predicate is never called for a value that is
\* undefined or null.
C6_PredicateSkipsAbsent ==
  \A i \in DOMAIN log : log[i].ev = "predicate" => ~Absent(log[i].arg)

\* C6, amended: the custom predicate is called exactly when the field
\* declares one and the value is not undefined (null is passed to it); it
\* receives the field's current value; the rule throws exactly when the
\* predicate was called and returned a falsy value (false, for a predicate
\* that returns a boolean), with the non-empty message of the pair, otherwise
\* "<field> failed custom validation".
CustomMessage(validate, key) ==
  IF IsArray(validate) /\ validate.val[2].val # <<>> THEN validate.val[2].val
  ELSE key \o <<" failed custom validation">>
PredicateCalled(i) == i > 1 /\ log[i - 1].ev = "predicate" /\ SamePlace(i - 1, i)

C6_CustomRule ==
  /\ \A i \in DOMAIN log :
       log[i].ev = "custom" =>
         /\ PredicateCalled(i) <=> (DefOf(i).validate # Undefined /\ log[i].arg # Undefined)
         /\ PredicateCalled(i) => log[i - 1].arg = log[i].arg
         /\ log[i].out.threw <=> (PredicateCalled(i) /\ ~Truthy(log[i - 1].out.val))
         /\ log[i].out.threw =>
              /\ log[i].out.val = Error("Error", CustomMessage(DefOf(i).validate, KeyOf(i)))
              /\ Aborted(i)
  /\ \A i \in DOMAIN log :
       log[i].ev = "predicate" =>
         i < Len(log) /\ log[i + 1].ev = "custom" /\ SamePlace(i, i + 1)

C6_Witness ==
  \E i \in DOMAIN log :
    /\ log[i].ev = "custom"
    /\ PredicateCalled(i)
    /\ log[i].arg = Null
    /\ log[i].out.threw
    /\ log[i].out.val.message = Msg.val

\* C7: the array-element rule throws exactly when the value is an array,
\* arrayOf is set and some element's typeof differs from arrayOf, and the
\* error names the field; the empty array, a value that is not an array and a
\* field without arrayOf pass.
ElementKind(v) ==
  IF v.kind \in {"object", "array", "date", "null"} THEN T("object") ELSE Str(<<v.kind>>)

RECURSIVE Walk(_, _)
Walk(record, path) ==
  IF path = <<>> THEN record ELSE Walk(Get(record, Head(path)), Tail(path))

RECURSIVE JoinPath(_)
JoinPath(path) ==
  IF Len(path) = 1 THEN Head(path) ELSE Head(path) \o <<".">> \o JoinPath(Tail(path))

\* C8, as claimed: the output's field equals the result of the transform.
C8_TransformResultIsOutput ==
  status = "resolved" =>
    \A i \in DOMAIN log :
      log[i].ev = "transform" => Walk(result, log[i].path) = log[i].out.val

\* C8, amended: the transform is called, once, exactly when every earlier
\* rule of the field passed and the value is not undefined; it receives that
\* value and its result replaces the field's value in the working record; the
\* result is the output's field when the field declares no nested schema and
\* the call does not flatten it (allowDotNotation off, or the result is not a
\* plain object; the field is then under its dot path).
OutputLeaf(path) ==
  IF options.allowDotNotation THEN Get(result, JoinPath(path)) ELSE Walk(result, path)

C8_Transform ==
  /\ \A i \in DOMAIN log :
       (log[i].ev = "arrayOf" /\ ~log[i].out.threw) =>
         ((log[i].arg # Undefined /\ DefOf(i).transform # Undefined) <=>
            /\ i < Len(log)
            /\ log[i + 1].ev = "transform"
            /\ SamePlace(i, i + 1)
            /\ log[i + 1].arg = log[i].arg
            /\ log[i + 1].out = Return(Call(DefOf(i).transform, log[i].arg)))
  /\ \A j \in DOMAIN log :
       log[j].ev = "transform" =>
         /\ j > 1 /\ log[j - 1].ev = "arrayOf" /\ SamePlace(j - 1, j)
         /\ \A k \in 1..(j - 1) : ~log[k].out.threw
         /\ \A k \in DOMAIN log : (log[k].ev = "transform" /\ SamePlace(k, j)) => k = j
  /\ status = "resolved" =>
       \A j \in DOMAIN log :
         (/\ log[j].ev = "transform"
          /\ DefOf(j).schema = Undefined
          /\ ~(options.allowDotNotation /\ IsPlainObject(log[j].out.val))) =>
           OutputLeaf(log[j].path) = log[j].out.val

C8_Witness ==
  /\ status = "resolved"
  /\ \E j \in DOMAIN log :
       /\ log[j].ev = "transform"
       /\ DefOf(j).validate # Undefined
       /\ log[j].arg = Str(<<"a">>)
       /\ Get(result, KeyOf(j)) = Arr(<<Str(<<"a">>)>>)

\* C9: fields are visited in declaration order, a nested schema in place; the
\* first throw ends the call at every level: it is the last entry of the log
\* (no supplier, predicate or transform runs after it), the promise is
\* rejected with its error and no record is returned.
RECURSIVE PreOrder(_, _)
PreOrder(schema, prefix) ==
  IF schema = <<>> THEN <<>>
  ELSE LET here == Append(prefix, Head(schema).key)
           below == IF Head(schema).def.schema = Undefined THEN <<>>
                    ELSE PreOrder(Head(schema).def.schema.val, here)
       IN <<here>> \o below \o PreOrder(Tail(schema), prefix)

IsType(e) == e.ev = "type"
Visited == [i \in DOMAIN SelectSeq(log, IsType) |-> SelectSeq(log, IsType)[i].path]
IsPrefix(p, q) == Len(p) <= Len(q) /\ SubSeq(q, 1, Len(p)) = p
Range(q) == {q[n] : n \in DOMAIN q}

C9_FailFast ==
  /\ \A i \in DOMAIN log : log[i].out.threw => Aborted(i)
  /\ IsPrefix(Visited, PreOrder(definition, <<>>))
  /\ status = "resolved" =>
       /\ Visited = PreOrder(definition, <<>>)
       /\ result.kind # "error"
  /\ status = "rejected" =>
       /\ log # <<>>
       /\ log[Len(log)].out.threw
       /\ result.kind = "error"

C9_Witness ==
  /\ status = "rejected"
  /\ Len(definition) = 2
  /\ definition[2].def.default # Undefined
  /\ ~options.skipDefault
  /\ \E i \in DOMAIN log : log[i].ev = "predicate" /\ log[i].path = <<A>>
  /\ log[Len(log)].ev = "custom"
  /\ log[Len(log)].path = <<A>>

\* C10: with the schema {details: {type: object, schema: {isAdmin: {type:
\* boolean, default: () => false}}}} and no options, the input {details: {}}
\* resolves with {details: {isAdmin: false}}.
C10_NestedDefault ==
  (/\ definition = <<Field(details, [FieldDef(T("object")) EXCEPT
                                       !.schema = SchemaOf(<<Field(isAdmin, AdminDef)>>)])>>
   /\ input = Record1(details, EmptyObj)
   /\ options = NoOptions
   /\ status \in {"resolved", "rejected"}) =>
    /\ status = "resolved"
    /\ result = Record1(details, Record1(isAdmin, Bool(FALSE)))

\* the input gives the top-level field a value, under its key or a dot path
InputHas(key) == \E k \in DOMAIN input.val : Split(k)[1] = key

\* C11: a field the input lacks, not required (or skipRequired) and without
\* default (or skipDefault), of a recognized type, raises no error and is
\* absent from the output, nested schema or not.
C11_AbsentFieldStaysAbsent ==
  status \in {"resolved", "rejected"} =>
    \A n \in 1..Len(definition) :
      LET key == definition[n].key
          def == definition[n].def
      IN (/\ ~InputHas(key)
          /\ def.type \in SchemaTypes
          /\ (options.skipRequired \/ ~RequiredFlag(def.required))
          /\ (options.skipDefault \/ def.default = Undefined)) =>
           /\ \A i \in DOMAIN log : log[i].out.threw => ~IsPrefix(<<key>>, log[i].path)
           /\ status = "resolved" =>
                \A k \in DOMAIN result.val : Split(k)[1] = key => result.val[k] = Undefined

\* a path of keys is declared: every level the schema describes declares it
RECURSIVE Declared(_, _)
Declared(schema, path) ==
  LET def == SchemaGet(schema, Head(path))
  IN /\ def # Undefined
     /\ (Len(path) = 1 \/ def.schema = Undefined \/ Declared(def.schema.val, Tail(path)))

\* the input is a flat record: no value is a plain object
FlatInput == \A k \in DOMAIN input.val : ~IsPlainObject(input.val[k])

\* C12: with allowDotNotation, skipDefault and skipRequired, a flat input that
\* passes (no transform declared on its way) comes back as its entries with a
\* declared dot path, under their keys, when stripping is enabled, and whole
\* when skipStrip is set.
C12_DotNotationOutput ==
  (/\ status = "resolved"
   /\ options.allowDotNotation /\ options.skipDefault /\ options.skipRequired
   /\ FlatInput
   /\ \A i \in DOMAIN log : log[i].ev # "transform") =>
     result = IF options.skipStrip THEN input
              ELSE Obj([k \in {q \in DOMAIN input.val : Declared(definition, Split(q))}
                         |-> input.val[k]])

\* ------------------------------------------- the path codec on its own
\* flat records of one or two dot-path keys, ambiguous pairs included, in
\* both insertion orders; the values cover every branch of flattenData's test
MaxDepth == 2
Segments == {A, B}
CodecPaths == UNION {[1..n -> Segments] : n \in 1..MaxDepth}
CodecKeys == {JoinPath(p) : p \in CodecPaths} \cup {Dot(A, <<>>), Dot(<<>>, B)}
CodecValues == {Num(0), Null, Date, Arr(<<Num(1)>>), EmptyObj, Record1(X, Num(1))}

CodecStart(record, order) ==
  /\ definition = <<>>
  /\ input = record
  /\ keyOrder = order
  /\ options = Options(TRUE, TRUE, TRUE, TRUE)
  /\ stack = <<>>
  /\ status = "flat"
  /\ result = Undefined
  /\ log = <<>>
  /\ NoModel
  /\ NoQuery

CodecInit ==
  \/ CodecStart(EmptyObj, <<>>)
  \/ \E k \in CodecKeys, v \in CodecValues : CodecStart(Record1(k, v), <<k>>)
  \/ \E k1 \in CodecKeys, v1 \in CodecValues, v2 \in CodecValues :
       \E k2 \in CodecKeys \ {k1} : CodecStart(Obj((k1 :> v1) @@ (k2 :> v2)), <<k1, k2>>)

\* nestData(F): the nested record, or the TypeError of an assignment into a
\* leaf that an earlier key put on the path
NestStep ==
  /\ status = "flat"
  /\ LET c == nestData(input, keyOrder)
     IN /\ status' = IF c.threw THEN "rejected" ELSE "nested"
        /\ result' = c.val
        /\ log' = Append(log, Event("nest", <<>>, input, c))
  /\ UNCHANGED <<definition, input, keyOrder, options, stack, modelVars, queryVars>>

\* flattenData of the nested record
FlattenStep ==
  /\ status = "nested"
  /\ status' = "flattened"
  /\ result' = flattenData(result, <<>>)
  /\ log' = Append(log, Event("flatten", <<>>, result, Return(result')))
  /\ UNCHANGED <<definition, input, keyOrder, options, stack, modelVars, queryVars>>

CodecNext ==
  \/ NestStep
  \/ FlattenStep

CodecSpec == CodecInit /\ [][CodecNext]_vars

\* no key of the record is a proper path prefix of another
Unambiguous(record) ==
  \A k1 \in DOMAIN record.val, k2 \in DOMAIN record.val :
    k1 # k2 => ~IsPrefix(Split(k1), Split(k2))

\* C13: for a flat record (no value a plain object) whose dot-path keys are
\* unambiguous, flattenData(nestData(F)) is F: same keys, same values.
C13_RoundTrip ==
  (status = "flattened" /\ Unambiguous(input) /\ FlatInput) => result = input

C13_Witness ==
  /\ status = "flattened"
  /\ Unambiguous(input) /\ FlatInput
  /\ DOMAIN input.val = {Dot(A, B), Dot(A, A)}
  /\ input.val[Dot(A, B)] = Date
  /\ log[1].out.val = Record1(A, Obj((B :> Date) @@ (A :> input.val[Dot(A, A)])))
  /\ result = input

\* every key of inRec the schema node lacks is in outRec with its value, and
\* so on inside the objects the walk descends into (a declared field with a
\* nested schema and no transform, holding an object)
RECURSIVE Kept(_, _, _)
Kept(schema, inRec, outRec) ==
  \A k \in DOMAIN inRec.val :
    LET def == SchemaGet(schema, k)
    IN IF def = Undefined
       THEN outRec.kind = "object" /\ k \in DOMAIN outRec.val /\ outRec.val[k] = inRec.val[k]
       ELSE (def.schema # Undefined /\ def.transform = Undefined /\ IsPlainObject(inRec.val[k])) =>
              Kept(def.schema.val, inRec.val[k], Get(outRec, k))

\* a declared field on the path has a transform
RECURSIVE Transformed(_, _)
Transformed(schema, path) ==
  LET def == SchemaGet(schema, Head(path))
  IN /\ def # Undefined
     /\ \/ def.transform # Undefined
        \/ Len(path) > 1 /\ def.schema # Undefined /\ Transformed(def.schema.val, Tail(path))

\* the same for a call that allows dot notation: the input's keys are paths
KeptPaths(keys) ==
  \A k \in keys :
    (~Declared(definition, Split(k)) /\ ~Transformed(definition, Split(k))) =>
      (k \in DOMAIN result.val /\ result.val[k] = input.val[k])

Survives(k) ==
  \/ options.skipStrip
  \/ \E i \in DOMAIN log :
       log[i].ev = "strip" /\ log[i].path = <<>> /\ k \in DOMAIN log[i].out.val.val

HasDot(k) == \E n \in DOMAIN k : k[n] = "."

\* a top-level key of the input that holds a nested object, survives the
\* stripping and has no transform is a top-level key holding a nested object
\* in the output, and the output has no dot-path key the input lacks
SameShape ==
  /\ \A k \in DOMAIN input.val :
       (/\ IsPlainObject(input.val[k])
        /\ ~HasDot(k)
        /\ Survives(k)
        /\ (SchemaGet(definition, k) # Undefined => SchemaGet(definition, k).transform = Undefined)) =>
         (k \in DOMAIN result.val /\ IsPlainObject(result.val[k]))
  /\ \A k \in DOMAIN result.val : HasDot(k) => k \in DOMAIN input.val

OptGet(o, name) == IF o = Undefined THEN Undefined ELSE o[name]

\* (options?.name === undefined) ? dflt : options?.name
OrDefault(o, name, dflt) == IF OptGet(o, name) = Undefined THEN Bool(dflt) ELSE OptGet(o, name)

\* an options object that falls back on the defaults of Schema.validate
ValidateOptions_SchemaDefaults(o) ==
  Options(Truthy(OrDefault(o, "skipStrip", FALSE)), Truthy(OrDefault(o, "skipRequired", FALSE)),
          Truthy(OrDefault(o, "skipDefault", FALSE)), Truthy(OrDefault(o, "allowDotNotation", FALSE)))

\* the options object Model.validate hands to Schema.validate
ValidateOptions(o) ==
  Options(Truthy(OrDefault(o, "skipStrip", FALSE)), Truthy(OrDefault(o, "skipRequired", TRUE)),
          Truthy(OrDefault(o, "skipDefault", TRUE)), Truthy(OrDefault(o, "allowDotNotation", TRUE)))

\* the one Model.create hands over: the properties it leaves out are falsy
CreateOptions(o) == Options(Truthy(OrDefault(o, "skipStrip", FALSE)), FALSE, FALSE, FALSE)

\* the one Model.updateById hands over
UpdateOptions(o) == Options(Truthy(OrDefault(o, "skipStrip", FALSE)), TRUE, TRUE, TRUE)

\* !options || !options.skipValidation
Validates(o) == o = Undefined \/ ~Truthy(o.skipValidation)

\* a hook that is called twice
HookCalls_Twice(hook, data) ==
  IF hook = "none" THEN <<>>
  ELSE <<[op |-> "beforeSave", arg |-> data], [op |-> "beforeSave", arg |-> data]>>

\* if (this.schema.methods?.beforeSave) await this.schema.methods?.beforeSave(data)
HookCalls(hook, data) ==
  IF hook = "none" THEN <<>> ELSE <<[op |-> "beforeSave", arg |-> data]>>

\* the Firestore write of the method: set for create with an id, else add;
\* update for updateById
WriteOp(method, o) ==
  IF method = "updateById" THEN "update"
  ELSE IF o # Undefined /\ Truthy(o.id) THEN "set" ELSE "add"

\* the body of the method up to the call of Schema.validate, or past it when
\* validation is skipped
ModelCall ==
  /\ call.pc = "called"
  /\ IF call.method = "validate"
     THEN options' = ValidateOptions(call.given) /\ call' = [call EXCEPT !.pc = "validating"]
     ELSE IF Validates(call.given)
     THEN /\ options' = IF call.method = "create" THEN CreateOptions(call.given)
                        ELSE UpdateOptions(call.given)
          /\ call' = [call EXCEPT !.pc = "validating"]
     ELSE options' = options /\ call' = [call EXCEPT !.pc = "validated", !.data = input]
  /\ UNCHANGED <<definition, input, keyOrder, stack, status, result, log, store, queryVars>>

\* this.schema.validate(data, undefined, options)
SchemaValidate ==
  /\ call.pc = "validating"
  /\ CallValidate

\* the await of Schema.validate resumes with the validated record:
\* Model.validate returns it, create and updateById assign it to data
Validated ==
  /\ call.pc = "validating"
  /\ status = "resolved"
  /\ call' = [call EXCEPT !.pc = IF call.method = "validate" THEN "returned" ELSE "validated",
                          !.data = result]
  /\ UNCHANGED <<definition, input, keyOrder, options, stack, status, result, log, store,
                 queryVars>>

\* the await of Schema.validate throws: the method's promise is rejected
Rejected ==
  /\ call.pc = "validating"
  /\ status = "rejected"
  /\ call' = [call EXCEPT !.pc = "rejected"]
  /\ UNCHANGED <<definition, input, keyOrder, options, stack, status, result, log, store,
                 queryVars>>

\* the beforeSave hook, when the schema has one; a hook that throws rejects
\* the method's promise
BeforeSave ==
  /\ call.pc = "validated"
  /\ store' = store \o HookCalls(call.hook, call.data)
  /\ call' = [call EXCEPT !.pc = IF call.hook = "throws" THEN "rejected" ELSE "hooked"]
  /\ UNCHANGED <<definition, input, keyOrder, options, stack, status, result, log, queryVars>>

\* doc.set(data), collection.add(data) or doc.update(data)
Write ==
  /\ call.pc = "hooked"
  /\ store' = Append(store, [op |-> WriteOp(call.method, call.given), arg |-> call.data])
  /\ call' = [call EXCEPT !.pc = "returned"]
  /\ UNCHANGED <<definition, input, keyOrder, options, stack, status, result, log, queryVars>>

\* a schema with a required field, a default, and a nested schema
ModelSchema ==
  <<Field(A, [FieldDef(T("string")) EXCEPT !.required = Bool(TRUE)]),
    Field(B, [FieldDef(T("string")) EXCEPT !.default = Fn("constAB")]),
    Field(details, [FieldDef(T("object")) EXCEPT !.schema = SchemaOf(<<Field(isAdmin, AdminDef)>>)])>>
ModelInputs ==
  {EmptyObj, Record1(A, Str(<<"a">>)), Record1(A, Num(1)), Record1(X, Num(1)),
   Record1(Dot(details, isAdmin), Bool(TRUE)),
   With(Record1(A, Str(<<"a">>)), details, Record1(isAdmin, Bool(TRUE)))}

Flag == {Undefined, Bool(TRUE), Bool(FALSE)}
NoGiven ==
  [skipStrip |-> Undefined, skipRequired |-> Undefined, skipDefault |-> Undefined,
   allowDotNotation |-> Undefined, skipValidation |-> Undefined, skipFormatting |-> Undefined,
   id |-> Undefined]
GivenValidate ==
  {Undefined} \cup
  {[NoGiven EXCEPT !.skipStrip = s, !.skipRequired = r, !.skipDefault = d, !.allowDotNotation = n] :
     s \in Flag, r \in Flag, d \in Flag, n \in Flag}
GivenCreate ==
  {Undefined} \cup
  {[NoGiven EXCEPT !.skipStrip = s, !.skipValidation = v, !.id = i] :
     s \in Flag, v \in Flag, i \in {Undefined, Str(<<"x">>)}}
GivenUpdate ==
  {Undefined} \cup {[NoGiven EXCEPT !.skipStrip = s, !.skipValidation = v] : s \in Flag, v \in Flag}

ModelStart(method, given, hook, data) ==
  /\ definition = ModelSchema
  /\ input = data
  /\ keyOrder = KeySeq(DOMAIN data.val)
  /\ options = Undefined
  /\ stack = <<>>
  /\ status = "idle"
  /\ result = Undefined
  /\ log = <<>>
  /\ call = [method |-> method, given |-> given, hook |-> hook, pc |-> "called", data |-> Undefined]
  /\ store = <<>>
  /\ NoQuery

ModelInit ==
  \/ \E g \in GivenValidate, d \in ModelInputs : ModelStart("validate", g, "none", d)
  \/ \E g \in GivenCreate, h \in {"none", "returns", "throws"}, d \in ModelInputs :
       ModelStart("create", g, h, d)
  \/ \E g \in GivenUpdate, h \in {"none", "returns", "throws"}, d \in ModelInputs :
       ModelStart("updateById", g, h, d)

ModelNext ==
  \/ ModelCall
  \/ SchemaValidate
  \/ FieldThrow
  \/ FieldPass
  \/ FieldRecurse
  \/ ReturnNested
  \/ ReturnRoot
  \/ Validated
  \/ Rejected
  \/ BeforeSave
  \/ Write

ModelSpec == ModelInit /\ [][ModelNext]_vars

\* the value an option has in the call of Schema.validate: what the caller
\* passed for it, else the stated default
Chosen(name, dflt) ==
  IF call.given = Undefined \/ call.given[name] = Undefined THEN dflt ELSE call.given[name].val

\* C16: Model.validate runs Schema.validate with skipStrip false, skipDefault
\* true, skipRequired true and allowDotNotation true unless the caller passes
\* the option, each passed option replacing only its own default; with no
\* options the required rule and the default step are not evaluated and the
\* record is nested on entry.
C16_ModelValidateDefaults ==
  (call.method = "validate" /\ call.pc # "called") =>
    /\ options = [skipStrip |-> Chosen("skipStrip", FALSE),
                  skipDefault |-> Chosen("skipDefault", TRUE),
                  skipRequired |-> Chosen("skipRequired", TRUE),
                  allowDotNotation |-> Chosen("allowDotNotation", TRUE)]
    /\ call.given = Undefined =>
         /\ \A i \in DOMAIN log : log[i].ev \notin {"required", "default"}
         /\ status # "idle" => log[1].ev = "nest"

C16_Witness ==
  /\ call.method = "validate"
  /\ call.given = Undefined
  /\ call.pc = "returned"
  /\ input = Record1(Dot(details, isAdmin), Bool(TRUE))
  /\ options = Options(FALSE, TRUE, TRUE, TRUE)
  /\ \E i \in DOMAIN log : log[i].ev = "type" /\ log[i].path = <<A>> /\ log[i].arg = Undefined

\* C17: in create and updateById the hook, when defined, is called once, after
\* the validation has resolved (when it is not skipped) and before the write,
\* with the record the method then writes; a failed validation leaves no hook
\* call and no write.
IsHook(e) == e.op = "beforeSave"
IsWrite(e) == e.op \in {"set", "add", "update"}

C17_BeforeSaveOnce ==
  call.method \in {"create", "updateById"} =>
    /\ Len(SelectSeq(store, IsHook)) <= 1
    /\ Len(SelectSeq(store, IsWrite)) <= 1
    /\ \A i \in DOMAIN store :
         /\ IsHook(store[i]) =>
              /\ i = 1
              /\ call.hook # "none"
              /\ Validates(call.given) => (status = "resolved" /\ store[i].arg = result)
              /\ ~Validates(call.given) => (status = "idle" /\ store[i].arg = input)
         /\ IsWrite(store[i]) =>
              /\ i = Len(store)
              /\ store[i].op = WriteOp(call.method, call.given)
              /\ call.hook = "none" => i = 1
              /\ call.hook # "none" => (i = 2 /\ IsHook(store[1]) /\ store[1].arg = store[i].arg)
              /\ call.hook # "throws"
              /\ Validates(call.given) => (status = "resolved" /\ store[i].arg = result)
    /\ status = "rejected" => (store = <<>> /\ call.pc \in {"validating", "rejected"})
    /\ call.pc = "returned" =>
         Len(store) = IF call.hook = "none" THEN 1 ELSE 2
    /\ (call.pc = "rejected" /\ status # "rejected") =>
         (call.hook = "throws" /\ Len(store) = 1 /\ IsHook(store[1]))

C17_Witness ==
  /\ call.method = "create"
  /\ call.pc = "returned"
  /\ call.hook = "returns"
  /\ status = "resolved"
  /\ Get(input, A) = Str(<<"a">>)
  /\ Get(result, B) = Str(<<"a", "b">>)
  /\ store = <<[op |-> "beforeSave", arg |-> result], [op |-> "add", arg |-> result]>>

\* ------------------------------------------------------------ the Query
\* builder calls and executions a run makes at most
MaxCalls == 2

\* new Query(collection)
NewQuery(collection) ==
  [collection |-> collection, conditions |-> <<>>, orderField |-> Undefined,
   limitTo |-> Undefined, offsetTo |-> Undefined]

\* the builder methods: what each does to the instance it is called on
where(this, field, operator, value) ==
  [this EXCEPT !.conditions = Append(@, [field |-> field, operator |-> operator, value |-> value])]
orderBy(this, field, direction) ==
  [this EXCEPT !.orderField = [field |-> field, direction |-> direction]]
limit(this, n) == [this EXCEPT !.limitTo = Num(n)]
offset(this, n) == [this EXCEPT !.offsetTo = Num(n)]

\* the builder calls a caller can make
BuilderCalls ==
  {[method |-> "where", field |-> f, operator |-> o, value |-> Num(1)] :
     f \in {A, B}, o \in {"==", "<"}}
    \cup {[method |-> "orderBy", field |-> f, direction |-> d] : f \in {A, B}, d \in {"asc", "desc"}}
    \cup {[method |-> "limit", n |-> n] : n \in 1..2}
    \cup {[method |-> "offset", n |-> n] : n \in 0..1}

Apply(this, c) ==
  CASE c.method = "where" -> where(this, c.field, c.operator, c.value)
    [] c.method = "orderBy" -> orderBy(this, c.field, c.direction)
    [] c.method = "limit" -> limit(this, c.n)
    [] c.method = "offset" -> offset(this, c.n)

\* get(): the Firestore query built from the instance, as the calls made on
\* the collection reference
BuildQuery(this) ==
  [i \in DOMAIN this.conditions |-> [method |-> "where"] @@ this.conditions[i]]
    \o (IF this.orderField # Undefined THEN <<[method |-> "orderBy"] @@ this.orderField>> ELSE <<>>)
    \o (IF this.limitTo # Undefined THEN <<[method |-> "limit", n |-> this.limitTo]>> ELSE <<>>)
    \o (IF this.offsetTo # Undefined THEN <<[method |-> "offset", n |-> this.offsetTo]>> ELSE <<>>)

\* q1 = Model.find()
QueryInit ==
  /\ definition = <<>>
  /\ input = EmptyObj
  /\ keyOrder = <<>>
  /\ options = Undefined
  /\ stack = <<>>
  /\ status = "query"
  /\ result = Undefined
  /\ log = <<>>
  /\ NoModel
  /\ heap = <<NewQuery("users")>>
  /\ names = [q1 |-> 1, q2 |-> 0]
  /\ sent = <<>>

Bound2(v) == names[v] # 0

\* q2 = q.method(...), q being q1 or q2: the method changes the instance q
\* refers to and returns this
Build ==
  /\ status = "query"
  /\ Len(log) < MaxCalls
  /\ \E v \in {"q1", "q2"}, c \in BuilderCalls :
       /\ Bound2(v)
       /\ heap' = [heap EXCEPT ![names[v]] = Apply(@, c)]
       /\ names' = [names EXCEPT !.q2 = names[v]]
       /\ log' = Append(log, [ev |-> "build", on |-> names[v], returned |-> names'.q2,
                              before |-> heap[names[v]], after |-> heap'[names[v]],
                              q1 |-> names.q1])
  /\ UNCHANGED <<definition, input, keyOrder, options, stack, status, result, modelVars, sent>>

\* await q.get()
Execute ==
  /\ status = "query"
  /\ Len(sent) < MaxCalls
  /\ \E v \in {"q1", "q2"} :
       /\ Bound2(v)
       /\ sent' = Append(sent, [by |-> v, query |-> BuildQuery(heap[names[v]])])
  /\ UNCHANGED <<definition, input, keyOrder, options, stack, status, result, log, modelVars,
                 heap, names>>

QueryNext ==
  \/ Build
  \/ Execute

QuerySpec == QueryInit /\ [][QueryNext]_vars

\* C18: a builder method returns a new instance and leaves the one it was
\* called on as it was, so a query executed through q1, on which only q2 was
\* built, carries no filter, order, limit or offset.
C18_BuildersReturnNewQuery ==
  /\ \A i \in DOMAIN log :
       log[i].ev = "build" => (log[i].returned # log[i].on /\ log[i].after = log[i].before)
  /\ \A i \in DOMAIN sent : sent[i].by = "q1" => sent[i].query = <<>>

\* the steps of one field, in the order the spec gives them; the entry of
\* the nested invocation (nest, strip) stands for the recursion
RuleOrder ==
  <<"default", "required", "type", "maxLength", "minLength", "predicate", "custom", "arrayOf",
    "transform", "nest", "strip">>
Ranked(i) == \E n \in DOMAIN RuleOrder : RuleOrder[n] = log[i].ev
Rank(ev) == CHOOSE n \in DOMAIN RuleOrder : RuleOrder[n] = ev
Checks == {"required", "type", "maxLength", "minLength", "custom", "arrayOf"}

\* every check before the given rank was evaluated on the field of entry i,
\* earlier, and passed (required only when the call does not skip it)
EarlierChecksPassed(i, rank) ==
  \A r \in Checks :
    (Rank(r) < rank /\ ~(r = "required" /\ options.skipRequired)) =>
      \E j \in 1..(i - 1) : log[j].ev = r /\ SamePlace(i, j) /\ ~log[j].out.threw

\* C19: the steps of a field are taken in the order default, required, type,
\* maxLength, minLength, custom, array elements, transform, nested
\* recursion; a rule is evaluated, and so can raise its error, only after
\* every rule before it in that order has passed.
C19_RuleOrder ==
  /\ \A i \in DOMAIN log, j \in DOMAIN log :
       (i < j /\ SamePlace(i, j) /\ Ranked(i) /\ Ranked(j) /\ log[i].path # <<>>) =>
         Rank(log[i].ev) < Rank(log[j].ev)
  /\ \A i \in DOMAIN log :
       (Ranked(i) /\ log[i].path # <<>> /\ log[i].ev # "default") =>
         EarlierChecksPassed(i, Rank(log[i].ev))
  /\ \A i \in DOMAIN log :
       Len(log[i].path) >= 2 =>
         \E j \in 1..(i - 1) :
           /\ log[j].path = SubSeq(log[i].path, 1, Len(log[i].path) - 1)
           /\ log[j].ev = "arrayOf"
           /\ ~log[j].out.threw
  /\ \A i \in DOMAIN log, j \in DOMAIN log :
       (i < j /\ IsPrefix(log[j].path, log[i].path) /\ log[i].path # log[j].path) =>
         log[j].ev = "flatten"

C19_Witness ==
  /\ status = "rejected"
  /\ log[Len(log)].ev = "maxLength"
  /\ log[Len(log)].arg = Str(<<"a">>)
  /\ DefOf(Len(log)).minLength = Num(2)
  /\ DefOf(Len(log)).validate = Fn("never")
  /\ result.message = A \o <<" must be at most ", NumText(0), " characters long">>

\* C20, as claimed: nestData and flattenData run in the outermost invocation
\* only.
C20_OnlyOutermostNests ==
  \A i \in DOMAIN log : log[i].ev \in {"nest", "flatten"} => log[i].path = <<>>

\* a record without nested objects
Flat(record) == \A k \in DOMAIN record.val : ~IsPlainObject(record.val[k])

\* C20, amended: with allowDotNotation every invocation, the recursive ones
\* included, nests the data it receives and flattens what it returns, so the
\* value a recursive call stores back into the parent record is flat, its
\* deeper levels under dot-path keys.
C20_EveryLevelNests ==
  options.allowDotNotation =>
    /\ \A i \in DOMAIN log :
         (/\ log[i].ev = "arrayOf"
          /\ ~log[i].out.threw
          /\ DefOf(i).schema # Undefined) =>
           \E j \in (i + 1)..Len(log) :
             /\ log[j].ev = "nest"
             /\ SamePlace(i, j)
             /\ \A k \in (i + 1)..(j - 1) : log[k].ev = "transform"
    /\ \A i \in DOMAIN log : log[i].ev = "flatten" => Flat(log[i].out.val)
    /\ \A n \in DOMAIN stack :
         \A m \in 1..(stack[n].i - 1) :
           stack[n].schema[m].def.schema # Undefined =>
             Flat(Get(stack[n].data, stack[n].schema[m].key))
    /\ status = "resolved" =>
         \A p \in {q \in Range(PreOrder(definition, <<>>)) : DefAt(definition, q).schema # Undefined} :
           \E i \in DOMAIN log : log[i].ev = "flatten" /\ log[i].path = p

C20_Witness ==
  /\ status = "resolved"
  /\ options.allowDotNotation
  /\ Get(Get(input, details), A) = Record1(B, Str(<<"a">>))
  /\ \E i \in DOMAIN log :
       /\ log[i].ev = "flatten"
       /\ log[i].path = <<details>>
       /\ Get(log[i].out.val, Dot(A, B)) = Str(<<"a">>)
  /\ Get(result, Dot(details, Dot(A, B))) = Str(<<"a">>)

\* ------------------------------------ one record given to two validate calls
\* Objects have identity here.  The heap is a sequence of cells; a cell is a
\* plain object: its properties (a property holds a leaf value, or a reference
\* to another cell) and the insertion order of its keys, which for-in follows.
\* Cell 1 is the record the caller built and passes to both calls.
\* options, stack, status and result hold one entry per call.
Ref(addr) == [kind |-> "ref", addr |-> addr]
IsRef(v) == v.kind = "ref"
Cell(props, order) == [kind |-> "object", val |-> props, keys |-> order]
EmptyCell == Cell(EmptyObj.val, <<>>)

\* obj[key] = v on a cell
SetCell(o, key, v) ==
  Cell(Put(o, key, v).val, IF key \in DOMAIN o.val THEN o.keys ELSE Append(o.keys, key))

\* h with obj[key] = v done on the cell at addr
Set(h, addr, key, v) == [h EXCEPT ![addr] = SetCell(@, key, v)]

\* the value a reference stands for, read through the heap
RECURSIVE Deref(_, _)
Deref(h, v) ==
  IF IsRef(v) THEN Obj([k \in DOMAIN h[v.addr].val |-> Deref(h, h[v.addr].val[k])]) ELSE v

\* a value built by an object literal or returned by a user function becomes
\* new cells: a plain object and, below it, its plain-object properties
RECURSIVE Alloc(_, _, _)
RECURSIVE AllocFields(_, _, _, _)
Alloc(h, v, order) ==
  IF ~IsPlainObject(v) THEN [h |-> h, slot |-> v]
  ELSE LET n == Len(h) + 1
       IN [h |-> AllocFields(Append(h, EmptyCell), n, v, order), slot |-> Ref(n)]
AllocFields(h, n, v, order) ==
  IF order = <<>> THEN h
  ELSE LET child == v.val[Head(order)]
           order2 == IF IsPlainObject(child) THEN KeySeq(DOMAIN child.val) ELSE <<>>
           a == Alloc(h, child, order2)
       IN AllocFields(Set(a.h, n, Head(order), a.slot), n, v, Tail(order))

\* lines 305-313 on the heap: the walk from objRef along keys steps into the
\* object an earlier key stored (the caller's own object when the record
\* holds one there), creates the missing levels, and assigns v at the last key
RECURSIVE AssignPathIn(_, _, _, _)
AssignPathIn(h, objRef, keys, v) ==
  IF ~IsRef(objRef) THEN [threw |-> TRUE, h |-> h]
  ELSE IF Len(keys) = 1 THEN [threw |-> FALSE, h |-> Set(h, objRef.addr, keys[1], v)]
  ELSE LET cur == Get(h[objRef.addr], keys[1])
           n == Len(h) + 1
       IN IF cur = Undefined
          THEN AssignPathIn(Set(Append(h, EmptyCell), objRef.addr, keys[1], Ref(n)),
                            Ref(n), Tail(keys), v)
          ELSE AssignPathIn(h, cur, Tail(keys), v)

\* the for-in loop of nestData over the cell at d, filling the cell at n
RECURSIVE NestFromIn(_, _, _, _)
NestFromIn(h, n, d, order) ==
  IF order = <<>> THEN [threw |-> FALSE, h |-> h]
  ELSE LET r == AssignPathIn(h, Ref(n), Split(Head(order)), Get(h[d], Head(order)))
       IN IF r.threw THEN r ELSE NestFromIn(r.h, n, d, Tail(order))

\* nestData(data) on the heap: nestedObj is a new cell; the values it is given
\* are the values of data, so a plain object of data is shared, not copied
nestDataIn(h, data) ==
  LET n == Len(h) + 1
      r == IF IsRef(data) THEN NestFromIn(Append(h, EmptyCell), n, data.addr, h[data.addr].keys)
           ELSE [threw |-> FALSE, h |-> Append(h, EmptyCell)]
  IN [threw |-> r.threw, h |-> r.h, slot |-> Ref(n)]

\* stripData(data, schema) on the heap: the deletions are made on the cell
stripDataIn(h, data, schema) ==
  IF ~IsRef(data) THEN h
  ELSE LET kept == DOMAIN stripData(Obj(h[data.addr].val), schema).val
           Stays(k) == k \in kept
       IN [h EXCEPT ![data.addr] =
             Cell([k \in kept |-> @.val[k]], SelectSeq(@.keys, Stays))]

\* for-in order of the object a slot refers to
KeysOf(h, v) == IF IsRef(v) THEN h[v.addr].keys ELSE <<>>

\* validate, lines 486-495, on the heap: without dot notation dataToCheck is
\* data itself, the object the caller passed
EnterIn(h, data, schema, path, opts) ==
  LET e == Enter(Deref(h, data), schema, path, KeysOf(h, data), opts)
      nested == IF opts.allowDotNotation THEN nestDataIn(h, data)
                ELSE [threw |-> FALSE, h |-> h, slot |-> data]
  IN [out |-> e.out, ev |-> e.ev, data |-> nested.slot,
      h |-> IF ~e.out.threw /\ ~opts.skipStrip
            THEN stripDataIn(nested.h, nested.slot, schema) ELSE nested.h]

\* a heap frame seen as values
Seen(h, frame) == Frame(frame.schema, Deref(h, frame.data), frame.i, frame.path)

\* lines 515 and 539: dataToCheck[key] = value, when the default or the
\* transform produced one
Written(h, frame, key, new) ==
  IF IsRef(frame.data) /\ new # Get(Deref(h, frame.data), key)
  THEN LET a == Alloc(h, new, IF IsPlainObject(new) THEN KeySeq(DOMAIN new.val) ELSE <<>>)
       IN Set(a.h, frame.data.addr, key, a.slot)
  ELSE h

\* what a step of a call leaves: the heap, the frames, whether the call is
\* running, awaiting, resolved or rejected, the value returned or thrown, and
\* the events of the step
Left(h, frames, state, value, ev) ==
  [h |-> h, stack |-> frames, status |-> state, result |-> value, ev |-> ev]

\* schema.validate(record, undefined, opts): lines 486-495 of the outermost
\* invocation
Begin(h, schema, opts) ==
  LET e == EnterIn(h, Ref(1), schema, <<>>, opts)
  IN IF e.out.threw THEN Left(e.h, <<>>, "rejected", e.out.val, e.ev)
     ELSE Left(e.h, <<Frame(schema, e.data, 1, <<>>)>>, "running", Undefined, e.ev)

\* line 544, the call: the nested invocation has started (e is what its
\* lines 486-495 left) or has thrown
AfterEnter(frames, schema, path, ev, e) ==
  IF e.out.threw THEN Left(e.h, <<>>, "rejected", e.out.val, ev \o e.ev)
  ELSE Left(e.h, Append(frames, Frame(schema, e.data, 1, path)), "running", Undefined,
            ev \o e.ev)

\* lines 541-546 once the rules of the entry have passed and the heap holds
\* what they wrote: the next entry, or the nested invocation on the value
AfterRules(h, frames, top, def, key, changed, ev, opts) ==
  IF changed
  THEN Left(h, <<>>, "rejected", Error("Unmodelled", <<"transform of a plain object">>), ev)
  ELSE IF def.schema = Undefined
  THEN Left(h, [frames EXCEPT ![Len(frames)].i = @ + 1], "running", Undefined, ev)
  ELSE AfterEnter(frames, def.schema.val, Append(top.path, key), ev,
                  EnterIn(h, Get(h[top.data.addr], key), def.schema.val,
                          Append(top.path, key), opts))

\* the loop body has run on the values (r): its writes are made on the heap,
\* and a throw rejects the call
AfterRun(h, frames, top, key, old, r, opts) ==
  IF r.out.threw
  THEN Left(Written(h, top, key, Get(r.data, key)), <<>>, "rejected", r.out.val, r.ev)
  ELSE AfterRules(Written(h, top, key, Get(r.data, key)), frames, top,
                  top.schema[top.i].def, key,
                  IsPlainObject(old) /\ Get(r.data, key) # old, r.ev, opts)

\* lines 498-545 for the schema entry the top frame is at: the loop body, and
\* for a nested schema the synchronous start of the nested invocation
FieldAt(h, frames, top, opts) ==
  AfterRun(h, frames, top, top.schema[top.i].key,
           Get(Deref(h, top.data), top.schema[top.i].key), FieldRun(Seen(h, top), opts), opts)
FieldIn(h, frames, opts) == FieldAt(h, frames, frames[Len(frames)], opts)

\* lines 548-553: the top invocation returns; the outermost one resolves the
\* caller's promise, a nested one resolves the promise its parent awaits at
\* line 544, and the parent is suspended until its continuation runs
ReturnIn(h, frames, opts) ==
  LET top == frames[Len(frames)]
      seen == Seen(h, top)
      flat == Returned(seen, opts)
      ret == IF opts.allowDotNotation THEN Alloc(h, flat, KeySeq(DOMAIN flat.val))
             ELSE [h |-> h, slot |-> top.data]
  IN Left(ret.h, SubSeq(frames, 1, Len(frames) - 1),
          IF Len(frames) = 1 THEN "resolved" ELSE "awaiting",
          ret.slot, ReturnEv(seen, opts))

\* the continuation after the await of line 544: the value the nested
\* invocation returned is stored in dataToCheck, and the loop goes on
Continue(h, frames, value, opts) ==
  LET top == frames[Len(frames)]
      key == top.schema[top.i].key
  IN Left(Set(h, top.data.addr, key, value),
          [frames EXCEPT ![Len(frames)].i = @ + 1], "running", Undefined, <<>>)

\* a call that runs with no other call in between, to its end
RECURSIVE Finish(_, _)
Finish(left, opts) ==
  CASE left.status = "running" ->
         Finish(IF left.stack[Len(left.stack)].i > Len(left.stack[Len(left.stack)].schema)
                THEN ReturnIn(left.h, left.stack, opts)
                ELSE FieldIn(left.h, left.stack, opts), opts)
    [] left.status = "awaiting" ->
         Finish(Continue(left.h, left.stack, left.result, opts), opts)
    [] OTHER -> left
Alone(record, order, schema, opts) ==
  LET left == Finish(Begin(Alloc(<<>>, record, order).h, schema, opts), opts)
  IN [status |-> left.status, value |-> Deref(left.h, left.result)]

Calls == {1, 2}

\* the caller's record as it is now
Record == Deref(heap, Ref(1))

\* JavaScript runs one call at a time: a call that has started or resumed
\* keeps running until it awaits, returns or throws
NoneRunning == \A c \in Calls : status[c] # "running"
TopOf(c) == stack[c][Len(stack[c])]

\* call c does a step and leaves `left`
Does(c, op, left) ==
  /\ heap' = left.h
  /\ stack' = [stack EXCEPT ![c] = left.stack]
  /\ status' = [status EXCEPT ![c] = left.status]
  /\ result' = [result EXCEPT ![c] = left.result]
  /\ log' = Append(log, [call |-> c, op |-> op, ev |-> left.ev, status |-> left.status,
                         value |-> Deref(left.h, left.result)])
  /\ UNCHANGED <<definition, input, keyOrder, options, modelVars, names, sent>>

\* the caller invokes schema.validate(record, undefined, options[c])
SharedCall ==
  \E c \in Calls :
    /\ status[c] = "idle"
    /\ NoneRunning
    /\ Does(c, "call", Begin(heap, definition, options[c]))

\* the running call evaluates the next schema entry of its top invocation
SharedField ==
  \E c \in Calls :
    /\ status[c] = "running"
    /\ TopOf(c).i <= Len(TopOf(c).schema)
    /\ Does(c, "field", FieldIn(heap, stack[c], options[c]))

\* the top invocation of the running call returns
SharedReturn ==
  \E c \in Calls :
    /\ status[c] = "running"
    /\ TopOf(c).i > Len(TopOf(c).schema)
    /\ Does(c, "return", ReturnIn(heap, stack[c], options[c]))

\* the continuation of a suspended call runs
SharedResume ==
  \E c \in Calls :
    /\ status[c] = "awaiting"
    /\ NoneRunning
    /\ Does(c, "resume", Continue(heap, stack[c], result[c], options[c]))

SharedStart(schema, record, order, opts1, opts2) ==
  /\ definition = schema
  /\ input = record
  /\ keyOrder = order
  /\ options = <<opts1, opts2>>
  /\ heap = Alloc(<<>>, record, order).h
  /\ stack = << <<>>, <<>> >>
  /\ status = <<"idle", "idle">>
  /\ result = <<Undefined, Undefined>>
  /\ log = <<>>
  /\ NoModel
  /\ names = <<>>
  /\ sent = <<>>

\* the schemas and records given to the two calls: a nested schema with a
\* default inside and a sibling after it, fields with default and transform,
\* and a record whose flat keys collide on a caller's object
SharedSchemas ==
  {<<Field(details, [FieldDef(T("object")) EXCEPT !.schema = SchemaOf(<<Field(isAdmin, AdminDef)>>)]),
     Field(B, [FieldDef(T("string")) EXCEPT !.default = Fn("constAB")])>>,
   <<Field(details, [FieldDef(T("object")) EXCEPT !.default = Fn("constEmptyObj"),
                                                  !.schema = SchemaOf(<<Field(isAdmin, AdminDef)>>)])>>,
   <<Field(details, [FieldDef(T("object")) EXCEPT
                       !.schema = SchemaOf(<<Field(A, [FieldDef(T("object")) EXCEPT
                                    !.schema = SchemaOf(<<Field(B, FieldDef(T("string")))>>)])>>)]),
     Field(B, [FieldDef(T("string")) EXCEPT !.transform = Fn("wrapArr")])>>,
   <<Field(A, [FieldDef(T("string")) EXCEPT !.transform = Fn("wrapArr")]),
     Field(details, [FieldDef(T("object")) EXCEPT !.schema = SchemaOf(<<>>)])>>}
SharedRecords ==
  {EmptyObj,
   Record1(details, EmptyObj),
   Record1(details, Obj((isAdmin :> Bool(TRUE)) @@ (bio :> Str(<<"a">>)))),
   Obj((details :> Record1(A, Record1(B, Str(<<"a">>)))) @@ (B :> Str(<<"a">>))),
   Obj((details :> EmptyObj) @@ (A :> Str(<<"a">>)) @@ (X :> Num(1))),
   Obj((Dot(details, isAdmin) :> Bool(TRUE)) @@ (B :> Str(<<"a">>)))}
SharedOptions == {Options(s, TRUE, d, n) : s \in BOOLEAN, d \in BOOLEAN, n \in BOOLEAN}

SharedInit ==
  \/ \E s \in SharedSchemas, r \in SharedRecords, o1 \in SharedOptions, o2 \in SharedOptions :
       SharedStart(s, r, KeySeq(DOMAIN r.val), o1, o2)
  \/ \E r \in CollidingRecords, o1 \in SharedOptions, o2 \in SharedOptions :
       \E q \in Orders(r) : SharedStart(CollidingSchema, r, q, o1, o2)

SharedNext ==
  \/ SharedCall
  \/ SharedField
  \/ SharedReturn
  \/ SharedResume

SharedSpec == SharedInit /\ [][SharedNext]_vars

\* the step in which call c settled, and how it settled: resolved or
\* rejected, and the record or the error as it was at that moment
Settled(c) == {n \in DOMAIN log : log[n].call = c /\ log[n].status \in {"resolved", "rejected"}}
Outcome(n) == [status |-> log[n].status, value |-> log[n].value]

\* call c settles as it would have settled alone on the record the caller
\* built
SettlesAsAlone(c) ==
  \A n \in Settled(c) : Outcome(n) = Alone(input, keyOrder, definition, options[c])

\* C21: validate works on a copy of its own: the record the caller passed is,
\* at every moment of the two calls made on it, what the caller built, and
\* each call settles as it would settle alone, whatever the other call did
\* before it or between its awaits.
C21_PrivateWorkingCopy ==
  /\ Record = input
  /\ \A c \in Calls : SettlesAsAlone(c)

\* ------------------------------------------------ colliding flat keys
\* the flat record has two keys, one a proper path prefix of the other
Colliding ==
  /\ Len(keyOrder) = 2
  /\ keyOrder[1] # keyOrder[2]
  /\ \/ IsPrefix(Split(keyOrder[1]), Split(keyOrder[2]))
     \/ IsPrefix(Split(keyOrder[2]), Split(keyOrder[1]))

\* the key visited first is the shorter path and its value is an array or a
\* Date: the later key becomes a named property of that value
ExtendsExotic ==
  /\ IsPrefix(Split(keyOrder[1]), Split(keyOrder[2]))
  /\ input.val[keyOrder[1]].kind \in {"array", "date"}

\* C22: for two flat keys of which one is a path prefix of the other, in
\* either iteration order, nestData returns without error and the nested
\* record holds, at the path of the key visited last, that key's value.
C22_LastWriteWins ==
  (status # "flat" /\ Colliding /\ ~ExtendsExotic) =>
    /\ ~log[1].out.threw
    /\ Walk(log[1].out.val, Split(keyOrder[2])) = input.val[keyOrder[2]]

\* no run leaves the part of JavaScript the model covers
Modelled == result.kind = "error" => result.name # "Unmodelled"
====
